---- MODULE Spec2Model ----
(***************************************************************************)
(* SideKick: the sendMessageV2 callable (functions/src/chat.ts), the       *)
(* provider dispatch it calls, the OpenAI adapters, and the browser's      *)
(* ChatProvider.sendMessage that invokes it.                               *)
(*                                                                         *)
(* One server invocation is in flight at a time; every await of the        *)
(* handler is a step.  Firestore reads and writes are taken to succeed;    *)
(* the outcomes of the outbound calls (file storage, the AI providers)     *)
(* are chosen by the environment.                                          *)
(***************************************************************************)
EXTENDS Integers, Sequences, FiniteSets, TLC

\* ------------------------------------------------------------------ bounds
MaxFiles == 2
MaxImages == 2
MaxExtra == 2
MaxSends == 2
MaxUsage == 12
MaxPolls == 2
MaxModels == 1
MaxDocs == 1
MaxCalls == 2
MaxTabs == 2
MaxCount == 3

\* ------------------------------------------------------ program constants
FreeLimit == 10
HistoryLimit == 20

\* ------------------------------------------------------------------ values
Users == {"u1", "u2"}
Callers == Users \cup {"anon"}
ChatIds == {"c1", "c2", "c0"}
Providers == {"openai", "google", "anthropic", "deepseek", "perplexity"}
Plans == {"free", "monthly_pro"}
NoProject == "none"
Projects == {"p1", "p2"}
Calls == 1..MaxCalls
Tabs == 1..MaxTabs
NoReq == [uid |-> "anon", chatId |-> "c0", provider |-> "openai",
          files |-> <<>>, images |-> <<>>]

\* The attachable files: storage url, file name and mime type.  s1 and s3
\* share a file name.
FileSet ==
  { [url |-> "s1", fileName |-> "a", mimeType |-> "text/csv"],
    [url |-> "s2", fileName |-> "b", mimeType |-> "application/pdf"],
    [url |-> "s3", fileName |-> "a", mimeType |-> "application/zip"] }

\* The images a request may carry: the url's scheme (or "none" for a missing
\* url) and the rest of the url.
ImageSet ==
  { [scheme |-> "https", id |-> "x"], [scheme |-> "https", id |-> "y"],
    [scheme |-> "http", id |-> "x"], [scheme |-> "none", id |-> ""] }

Min(a, b) == IF a < b THEN a ELSE b

RECURSIVE SeqsUpTo(_, _)
\* the sequences over S of length at most n
SeqsUpTo(S, n) ==
  IF n = 0 THEN {<<>>}
  ELSE LET shorter == SeqsUpTo(S, n - 1)
       IN  shorter \cup {Append(s, x) : s \in shorter, x \in S}

Distinct(s) == \A i, j \in 1..Len(s) : i # j => s[i] # s[j]

FileLists(n) == {s \in SeqsUpTo(FileSet, n) : Distinct(s)}
ImageLists(n) == SeqsUpTo(ImageSet, n)

\* ---------------------------------------------------- errors and responses
\* An error: the code of an HttpsError ("Error" for a plain Error), its
\* message text, and what the message embeds of the provider's HTTP
\* response: the status (0 when none) and the response body ("" when none).
HttpsError(code, text) ==
  [code |-> code, text |-> text, status |-> 0, body |-> ""]
Failure(text, status, body) ==
  [code |-> "Error", text |-> text, status |-> status, body |-> body]
NoError == HttpsError("none", "")

\* what the OpenAI SDK raises for a failed request
SdkError == Failure("openai request failed", 500, "provider body")

\* callAIProvider's catch, lines 201-204:
\* HttpsError('internal', `AI provider error (${provider}): ${error.message}`)
ProviderError(error) == [error EXCEPT !.code = "internal"]

\* A usage object: a field is <<n>> when present and <<>> when missing.
Usage(defined, prompt, completion, total) ==
  [defined |-> defined, prompt_tokens |-> prompt,
   completion_tokens |-> completion, total_tokens |-> total]
NoUsage == Usage(FALSE, <<>>, <<>>, <<>>)
ZeroUsage == Usage(TRUE, <<0>>, <<0>>, <<0>>)

\* the usage objects a provider may report
UsageReports ==
  { NoUsage, ZeroUsage,
    Usage(TRUE, <<3>>, <<4>>, <<7>>),
    Usage(TRUE, <<3>>, <<4>>, <<9>>),
    Usage(TRUE, <<3>>, <<>>, <<3>>) }

\* `x || 0`
OrZero(field) == IF field = <<>> THEN 0 ELSE field[1]

\* what the caller of the callable receives: the code and message of the
\* error, or "ok" and the usage of the return value
NoTokens == [promptTokens |-> 0, completionTokens |-> 0, totalTokens |-> 0]
NoResponse ==
  [code |-> "none", text |-> "", status |-> 0, body |-> "", usage |-> NoTokens]
ErrorResponse(error) ==
  [code |-> error.code, text |-> error.text, status |-> error.status,
   body |-> error.body, usage |-> NoTokens]
OkResponse(usage) == [NoResponse EXCEPT !.code = "ok", !.usage = usage]

VARIABLES
  users,          \* users/{uid}: exists, subscription.plan, usage.messagesThisMonth
  chats,          \* chats/{chatId}: exists, userId, projectId, messageCount
  project,        \* projects/p1
  stored,         \* chats/c1/messages: the persisted turns
  pc,             \* where the server invocation stands
  req,            \* request.data and request.auth.uid
  messages,       \* the handler's local messages array
  thrown,         \* the error raised inside the handler's try block
  response,       \* what the caller receives
  aiResponse,     \* what callAIProvider gave back
  dispatched,     \* the sequences callAIProvider was called with
  payload,        \* the request body built for the provider
  quotaRead,      \* usage.messagesThisMonth as read by the quota check
  usageAtCall,    \* usage.messagesThisMonth when the invocation began
  nUserReads,     \* reads of users/{uid} in this invocation
  nExtract,       \* calls of extractFileContent in this invocation
  extracts,       \* the file and the outcome of each of these calls
  nIncrements,    \* usage increments in this invocation
  adapter,        \* the OpenAI adapters' locals
  cpc,            \* where the browser's sendMessage stands
  snapLen,        \* messages.length as captured by the browser's handler
  nSends,         \* the sends the browser has begun
  catalog,        \* per provider, the last model-list fetch and what it gave
  access,         \* the last request the security rules decided on
  calls,          \* sendMessageV2 invocations of u1 running side by side
  tabs,           \* sendMessage handlers of u1's browser tabs on chat c1
  chatCount       \* projects/{projectId}: chatCount

store == <<users, chats, project, stored>>
server == <<pc, req, messages, thrown, response, aiResponse, dispatched,
            payload, quotaRead, usageAtCall, nUserReads, nExtract, extracts, nIncrements>>
client == <<cpc, snapLen, nSends>>
sideBySide == <<calls, tabs>>
beside == <<catalog, access, sideBySide, chatCount>>
vars == <<users, chats, project, stored, pc, req, messages, thrown, response,
          aiResponse, dispatched, payload, quotaRead, usageAtCall, nUserReads,
          nExtract, extracts, nIncrements, adapter, cpc, snapLen, nSends,
          catalog, access, calls, tabs, chatCount>>

\* --------------------------------------------------------------- the turns
\* A turn of the messages array.  kind and ts stand for its content: which
\* text it carries (a project field, the stored turn ts, the file note,
\* the new user text); body holds the per-file parts of a file note.
Turn(role, kind) ==
  [role |-> role, kind |-> kind, ts |-> 0, body |-> <<>>,
   images |-> <<>>, files |-> <<>>]

SystemTurn(kind) == Turn("system", kind)

ProjectKinds == {"projectFiles", "systemPrompt", "sharedContext", "instructions"}

RECURSIVE SortByTimestamp(_)
\* orderBy('timestamp', 'asc')
SortByTimestamp(S) ==
  IF S = {} THEN <<>>
  ELSE LET m == CHOOSE x \in S : \A y \in S : x.ts <= y.ts
       IN  <<m>> \o SortByTimestamp(S \ {m})

\* .orderBy('timestamp', 'asc').limit(20).get()
HistoryQuery(S) ==
  LET sorted == SortByTimestamp(S)
  IN  SubSeq(sorted, 1, Min(Len(sorted), HistoryLimit))

\* messagesSnapshot.docs.map(...): role and content, images when present
HistoryTurns(S) ==
  LET docs == HistoryQuery(S)
  IN  [i \in 1..Len(docs) |->
         [Turn(docs[i].role, "history") EXCEPT !.ts = docs[i].ts,
                                               !.images = docs[i].images]]

Unshift(msgs, t) == <<t>> \o msgs

\* the four turns added in reading order, each put in front of the last
InjectProjectReversed(msgs, p) ==
  LET m1 == IF p.files = "content"
            THEN Unshift(msgs, SystemTurn("projectFiles")) ELSE msgs
      m2 == IF p.systemPrompt
            THEN Unshift(m1, SystemTurn("systemPrompt")) ELSE m1
      m3 == IF p.sharedContext
            THEN Unshift(m2, SystemTurn("sharedContext")) ELSE m2
      m4 == IF p.instructions
            THEN Unshift(m3, SystemTurn("instructions")) ELSE m3
  IN  m4

\* the four messages.unshift calls, in the order the handler makes them
InjectProject(msgs, p) ==
  LET m1 == IF p.instructions
            THEN Unshift(msgs, SystemTurn("instructions")) ELSE msgs
      m2 == IF p.sharedContext
            THEN Unshift(m1, SystemTurn("sharedContext")) ELSE m1
      m3 == IF p.systemPrompt
            THEN Unshift(m2, SystemTurn("systemPrompt")) ELSE m2
      m4 == IF p.files = "content"
            THEN Unshift(m3, SystemTurn("projectFiles")) ELSE m3
  IN  m4

\* extractFileContent: what it returns for a file, given how the download
\* and the parse go.
ParsedTypes == {"application/pdf"}
TextTypes == {"text/csv"}
ExtractOutcomes == {"ok", "fetchFail", "parseFail"}
\* how the extraction of a file can go: only the parsed types have a parser
ExtractOutcomesOf(file) ==
  IF file.mimeType \in ParsedTypes THEN ExtractOutcomes
  ELSE ExtractOutcomes \ {"parseFail"}
\* the failures of the download and of the parser not handled
extractFileContentUnguarded(file, outcome) ==
  IF file.mimeType \in ParsedTypes \cup TextTypes
  THEN [kind |-> "content", of |-> file.url, reason |-> ""]
  ELSE [kind |-> "unsupported", of |-> file.fileName, reason |-> file.mimeType]

extractFileContent(file, outcome) ==
  IF outcome = "fetchFail"
  THEN [kind |-> "failed", of |-> file.fileName, reason |-> "fetch"]
  ELSE IF file.mimeType \in ParsedTypes
  THEN IF outcome = "parseFail"
       THEN [kind |-> "failed", of |-> file.fileName, reason |-> "parse"]
       ELSE [kind |-> "content", of |-> file.url, reason |-> ""]
  ELSE IF file.mimeType \in TextTypes
  THEN [kind |-> "content", of |-> file.url, reason |-> ""]
  ELSE [kind |-> "unsupported", of |-> file.fileName, reason |-> file.mimeType]

\* `=== FILE: name (mime) ===\n${content}\n=== END FILE ===`
FileBlock(file, content) ==
  [fileName |-> file.fileName, mimeType |-> file.mimeType, content |-> content]

\* the orders in which n promises started together can settle: order[k] is
\* the index of the k-th to settle
Orders(n) ==
  {order \in [1..n -> 1..n] : \A i, j \in 1..n : i # j => order[i] # order[j]}

\* files.map(async (file) => ...): the blocks as they become available, each
\* with the index of its file
Settled(files, outcomes, order) ==
  [k \in 1..Len(files) |->
     [index |-> order[k],
      value |-> FileBlock(files[order[k]],
                          extractFileContent(files[order[k]], outcomes[order[k]]))]]

\* the values in the order in which they became available
PromiseAllAsSettled(settled) == [k \in 1..Len(settled) |-> settled[k].value]

\* Promise.all: each value at the index of its promise
PromiseAll(settled) ==
  [i \in 1..Len(settled) |->
     LET k == CHOOSE n \in 1..Len(settled) : settled[n].index = i
     IN  settled[k].value]

\* the system turn pushed for the files of the request
FileNote(provider, files, outcomes, order) ==
  IF provider = "openai"
  THEN [SystemTurn("fileText") EXCEPT
          !.body = PromiseAll(Settled(files, outcomes, order))]
  ELSE [SystemTurn("fileUrls") EXCEPT
          !.body = [i \in 1..Len(files) |->
                      [fileName |-> files[i].fileName,
                       mimeType |-> files[i].mimeType,
                       content |-> [kind |-> "url", of |-> files[i].url,
                                    reason |-> ""]]]]

\* userMessage: content, images when given, files when given
UserTurn(r) ==
  [Turn("user", "user") EXCEPT !.images = r.images, !.files = r.files]

\* the user turn pushed before the file note
AppendUserTurnFirst(msgs, r, outcomes, order) ==
  LET withUser == Append(msgs, UserTurn(r))
  IN  IF Len(r.files) > 0
      THEN Append(withUser, FileNote(r.provider, r.files, outcomes, order))
      ELSE withUser

\* lines 1511-1565: the file note, then the user turn
AppendRequestTurns(msgs, r, outcomes, order) ==
  LET withNote == IF Len(r.files) > 0
                  THEN Append(msgs, FileNote(r.provider, r.files, outcomes, order))
                  ELSE msgs
  IN  Append(withNote, UserTurn(r))

\* ------------------------------------------------------------ initial state
NoFetch == [kind |-> "none", status |-> 0, data |-> <<>>]
NotFetched == [fetch |-> NoFetch, threw |-> FALSE, models |-> <<>>]
NoAccess == [uid |-> "anon", op |-> "none", target |-> "none", chatId |-> "c0",
             owner |-> "none", allowed |-> FALSE]

StoredTurn(ts, role, status) ==
  [ts |-> ts, role |-> role, images |-> <<>>, status |-> status]

\* a chat that holds n turns: user and assistant turns alternate
InitialTurns(n) ==
  {StoredTurn(i, IF i % 2 = 1 THEN "user" ELSE "assistant", "sent") : i \in 1..n}

ProjectDocs ==
  [exists : BOOLEAN, instructions : BOOLEAN, sharedContext : BOOLEAN,
   systemPrompt : BOOLEAN, files : {"absent", "noContent", "content"}]

NoReply == [status |-> 0, body |-> "", usage |-> NoUsage]

AdapterIdle ==
  [route |-> "none", uploaded |-> <<>>, fetched |-> <<>>, assistant |-> "none",
   thread |-> "none", appended |-> <<>>, run |-> "none", status |-> "none",
   polls |-> 0, deleteAssistant |-> FALSE, deleteFiles |-> <<>>,
   completion |-> 0, unlisted |-> 0, reply |-> "none", http |-> NoReply,
   usage |-> NoUsage]

ServerIdle ==
  /\ pc = "idle"
  /\ req = NoReq
  /\ messages = <<>>
  /\ thrown = NoError
  /\ response = NoResponse
  /\ aiResponse = "none"
  /\ dispatched = <<>>
  /\ payload = <<>>
  /\ quotaRead = -1
  /\ usageAtCall = 0
  /\ nUserReads = 0
  /\ nExtract = 0
  /\ extracts = <<>>
  /\ nIncrements = 0
  /\ adapter = AdapterIdle

\* an invocation of sendMessageV2 that has not begun: where it stands and the
\* usage.messagesThisMonth its quota check read
CallIdle == [at |-> "idle", read |-> 0]

\* a tab whose sendMessage is not running: where it stands, messages.length
\* as its handler captured it, the timestamp of its user message, its sends
TabIdle == [at |-> "idle", seen |-> 0, ts |-> 0, sends |-> 0]

\* per project, the chats that exist and have it as their projectId
ChatsIn(docs) ==
  [p \in Projects |->
     Cardinality({c \in ChatIds : docs[c].exists /\ docs[c].projectId = p})]

InitStore(plans, usages, projectIds, projectDocs, lengths) ==
  /\ \E plan \in plans, used \in usages :
       users = [u \in Users |->
                  IF u = "u1"
                  THEN [exists |-> TRUE, plan |-> plan, messagesThisMonth |-> used]
                  ELSE [exists |-> FALSE, plan |-> "free", messagesThisMonth |-> 0]]
  /\ \E pid \in projectIds, n \in lengths :
       /\ chats = [c \in ChatIds |->
                     [exists |-> c # "c0",
                      userId |-> IF c = "c2" THEN "u2" ELSE "u1",
                      projectId |-> IF c = "c1" THEN pid ELSE NoProject,
                      messageCount |-> IF c = "c1" THEN n ELSE 0]]
       /\ stored = [c \in ChatIds |-> IF c = "c1" THEN InitialTurns(n) ELSE {}]
  /\ project \in projectDocs
  /\ cpc = "idle"
  /\ snapLen = 0
  /\ nSends = 0
  /\ catalog = [p \in Providers |-> NotFetched]
  /\ access = NoAccess
  /\ calls = [k \in Calls |-> CallIdle]
  /\ tabs = [t \in Tabs |-> TabIdle]
  /\ chatCount = ChatsIn(chats)

\* ---------------------------------------------------------- sendMessageV2
\* the handler's catch block: whatever was thrown inside the try, the caller
\* gets HttpsError('internal', 'Failed to send message')
\* the error thrown inside the try handed on to the caller as it is
CaughtResponseRethrown(error) == ErrorResponse(error)

CaughtResponse(error) ==
  ErrorResponse(HttpsError("internal", "Failed to send message"))

Catch(error) ==
  /\ thrown' = error
  /\ response' = CaughtResponse(error)
  /\ pc' = "done"

Requests(callers, chatIds, providers, fileLists, imageLists) ==
  [uid : callers, chatId : chatIds, provider : providers,
   files : fileLists, images : imageLists]

\* the callable is invoked; `if (!request.auth)` is outside the try block
Call(r) ==
  /\ pc = "idle"
  /\ r.uid \in Users => users[r.uid].messagesThisMonth < MaxUsage
  /\ req' = r
  /\ usageAtCall' = IF r.uid \in Users THEN users[r.uid].messagesThisMonth ELSE 0
  /\ IF r.uid = "anon"
     THEN /\ thrown' = HttpsError("unauthenticated", "User must be authenticated")
          /\ response' = ErrorResponse(thrown')
          /\ pc' = "done"
     ELSE /\ pc' = "verifyOwner"
          /\ UNCHANGED <<thrown, response>>
  /\ UNCHANGED <<beside, messages, aiResponse, dispatched, payload, quotaRead,
                 nUserReads, nExtract, extracts, nIncrements, adapter>>

DirectCall(rs) ==
  /\ cpc = "idle"
  /\ \E r \in rs : Call(r)
  /\ UNCHANGED <<beside, store, client>>

VerifyOwner ==
  /\ pc = "verifyOwner"
  /\ LET chatDoc == chats[req.chatId]
     IN  IF ~chatDoc.exists \/ chatDoc.userId # req.uid
         THEN Catch(HttpsError("permission-denied", "Access denied"))
         ELSE /\ pc' = "checkUser"
              /\ UNCHANGED <<thrown, response>>
  /\ UNCHANGED <<beside, store, client, req, messages, aiResponse, dispatched, payload,
                 quotaRead, usageAtCall, nUserReads, nExtract, extracts, nIncrements,
                 adapter>>

\* the quota test of line 1435
QuotaExceeded(userData) ==
  userData.plan = "free" /\ userData.messagesThisMonth >= FreeLimit

CheckUser ==
  /\ pc = "checkUser"
  /\ nUserReads' = nUserReads + 1
  /\ LET userData == users[req.uid]
     IN  IF ~userData.exists
         THEN Catch(HttpsError("not-found", "User not found")) /\ UNCHANGED quotaRead
         ELSE /\ quotaRead' = userData.messagesThisMonth
              /\ IF QuotaExceeded(userData)
                 THEN Catch(HttpsError("resource-exhausted", "Monthly message limit exceeded"))
                 ELSE /\ pc' = "loadHistory"
                      /\ UNCHANGED <<thrown, response>>
  /\ UNCHANGED <<beside, store, client, req, messages, aiResponse, dispatched, payload,
                 usageAtCall, nExtract, extracts, nIncrements, adapter>>

LoadHistory ==
  /\ pc = "loadHistory"
  /\ messages' = HistoryTurns(stored[req.chatId])
  /\ pc' = IF chats[req.chatId].projectId # NoProject
           THEN "loadProject" ELSE "handleFiles"
  /\ UNCHANGED <<beside, store, client, req, thrown, response, aiResponse, dispatched,
                 payload, quotaRead, usageAtCall, nUserReads, nExtract, extracts,
                 nIncrements, adapter>>

LoadProject ==
  /\ pc = "loadProject"
  /\ messages' = IF project.exists THEN InjectProject(messages, project)
                 ELSE messages
  /\ pc' = "handleFiles"
  /\ UNCHANGED <<beside, store, client, req, thrown, response, aiResponse, dispatched,
                 payload, quotaRead, usageAtCall, nUserReads, nExtract, extracts,
                 nIncrements, adapter>>

\* lines 1511-1565
HandleFiles ==
  /\ pc = "handleFiles"
  /\ \E outcomes \in [1..Len(req.files) -> ExtractOutcomes],
        order \in Orders(IF req.provider = "openai" THEN Len(req.files) ELSE 0) :
       /\ \A i \in 1..Len(req.files) : outcomes[i] \in ExtractOutcomesOf(req.files[i])
       /\ messages' = AppendRequestTurns(messages, req, outcomes, order)
       /\ extracts' = IF req.provider = "openai"
                      THEN [i \in 1..Len(req.files) |->
                              [file |-> req.files[i], outcome |-> outcomes[i]]]
                      ELSE extracts
  /\ nExtract' = IF req.provider = "openai" THEN nExtract + Len(req.files)
                 ELSE nExtract
  /\ pc' = "callAIProvider"
  /\ UNCHANGED <<beside, store, client, req, thrown, response, aiResponse, dispatched,
                 payload, quotaRead, usageAtCall, nUserReads, nIncrements,
                 adapter>>

\* ----------------------------------------------------------- callAIProvider
\* how a call of callAIProvider ends for sendMessageV2: a result reaches the
\* usage update; an error, wrapped as HttpsError('internal', ...), reaches
\* the handler's catch block; undefined makes `aiResponse.content` throw
AdapterReturns ==
  /\ aiResponse' = "result"
  /\ pc' = "updateUsage"
  /\ UNCHANGED <<thrown, response>>

\* the error swallowed: the handler goes on to the usage update
AdapterThrowsSwallowed(error) ==
  /\ aiResponse' = "threw"
  /\ pc' = "updateUsage"
  /\ UNCHANGED <<thrown, response>>

AdapterThrows(error) ==
  /\ aiResponse' = "threw"
  /\ Catch(ProviderError(error))

AdapterReturnsUndefined ==
  /\ aiResponse' = "undefined"
  /\ Catch(Failure("Cannot read properties of undefined", 0, ""))

hasFiles(msgs) == \E i \in 1..Len(msgs) : Len(msgs[i].files) > 0
hasImages(msgs) == \E i \in 1..Len(msgs) : Len(msgs[i].images) > 0

\* the adapter chosen by looking for a turn that has both files and images
OpenAIRouteSameTurn(msgs) ==
  LET both == \E i \in 1..Len(msgs) :
                Len(msgs[i].files) > 0 /\ Len(msgs[i].images) > 0
  IN  IF hasFiles(msgs) /\ ~both THEN "assistants"
      ELSE IF both THEN "filesAndImages"
      ELSE "chatCompletions"

\* callOpenAI: which adapter gets the messages
OpenAIRoute(msgs) ==
  IF hasFiles(msgs) /\ ~hasImages(msgs) THEN "assistants"
  ELSE IF hasFiles(msgs) /\ hasImages(msgs) THEN "filesAndImages"
  ELSE "chatCompletions"

CallAIProvider ==
  /\ pc = "callAIProvider"
  /\ dispatched' = Append(dispatched, messages)
  /\ IF req.provider = "openai"
     THEN /\ adapter' = [adapter EXCEPT !.route = OpenAIRoute(messages)]
          /\ pc' = OpenAIRoute(messages)
          /\ UNCHANGED <<thrown, response, aiResponse>>
     ELSE IF req.provider \in Providers
     THEN /\ adapter' = [adapter EXCEPT !.route = req.provider]
          /\ pc' = "httpAdapter"
          /\ UNCHANGED <<thrown, response, aiResponse>>
     ELSE /\ AdapterThrows(HttpsError("invalid-argument", "Unsupported provider"))
          /\ UNCHANGED adapter
  /\ UNCHANGED <<beside, store, client, req, messages, payload, quotaRead, usageAtCall,
                 nUserReads, nExtract, extracts, nIncrements>>

\* ------------------------------------------------------ the HTTP adapters
\* What the provider's endpoint answers: nothing (fetch rejects), or a
\* status and a body: a completion with its usage object, another JSON
\* document, or text that is not JSON.
NetworkError == [status |-> 0, body |-> "none", usage |-> NoUsage]
HttpReplies ==
  {NetworkError}
    \cup [status : {200, 500}, body : {"completion"}, usage : UsageReports]
    \cup [status : {200, 500}, body : {"json", "text"}, usage : {NoUsage}]

\* response.ok
Ok(reply) == reply.status >= 200 /\ reply.status <= 299

\* how an adapter ends: the object it returns or the error it throws
Returned(usage) == [kind |-> "result", usage |-> usage, error |-> NoError]
Threw(error) == [kind |-> "threw", usage |-> NoUsage, error |-> error]
FetchRejects == Threw(Failure("fetch failed", 0, ""))
JsonRejects == Threw(Failure("Unexpected token", 0, ""))

\* the SDK's generateContent and response.text(); the usage is all zeros
callGoogle(reply) ==
  IF reply = NetworkError THEN FetchRejects
  ELSE IF ~Ok(reply) \/ reply.body # "completion"
  THEN Threw(Failure("GoogleGenerativeAI error", reply.status, ""))
  ELSE Returned(ZeroUsage)

\* lines 732-752
callAnthropic(reply) ==
  IF reply = NetworkError THEN FetchRejects
  ELSE IF ~Ok(reply)
  THEN Threw(Failure("Anthropic API error", reply.status, ""))
  ELSE IF reply.body = "text" THEN JsonRejects
  ELSE LET input == OrZero(reply.usage.prompt_tokens)
           output == OrZero(reply.usage.completion_tokens)
       IN  Returned(Usage(TRUE, <<input>>, <<output>>, <<input + output>>))

\* lines 755-772: response.ok is not looked at
callDeepSeek(reply) ==
  IF reply = NetworkError THEN FetchRejects
  ELSE IF reply.body = "text" THEN JsonRejects
  ELSE IF reply.body = "json"
  THEN Threw(Failure("Cannot read properties of undefined", 0, ""))
  ELSE Returned(reply.usage)

\* lines 774-803
callPerplexity(reply) ==
  IF reply = NetworkError THEN FetchRejects
  ELSE IF ~Ok(reply)
  THEN Threw(Failure("Perplexity API error", reply.status, reply.body))
  ELSE IF reply.body = "text" THEN JsonRejects
  ELSE Returned(IF reply.usage.defined THEN reply.usage ELSE ZeroUsage)

HttpAdapter(provider, reply) ==
  CASE provider = "google" -> callGoogle(reply)
    [] provider = "anthropic" -> callAnthropic(reply)
    [] provider = "deepseek" -> callDeepSeek(reply)
    [] provider = "perplexity" -> callPerplexity(reply)

\* ------------------------------------------------- OpenAI message payloads
NoImage == [scheme |-> "", id |-> ""]
TextPart == [type |-> "text", url |-> NoImage]
ImagePart(image) == [type |-> "image_url", url |-> image]
FilePart(uploadedFile) ==
  [type |-> "file_text",
   url |-> [scheme |-> "openai-file", id |-> ToString(uploadedFile.id)]]

\* startsWith('http'): plain http passes too
ValidImageUrlAnyHttp(image) == image.scheme \in {"https", "http"}

\* `image.url && image.url.startsWith('https://')`
ValidImageUrl(image) == image.scheme = "https"

RECURSIVE ImageParts(_)
\* msg.images.forEach: an image_url part for each valid image, the others
\* are logged and skipped
ImageParts(images) ==
  IF images = <<>> THEN <<>>
  ELSE (IF ValidImageUrl(Head(images)) THEN <<ImagePart(Head(images))>> ELSE <<>>)
       \o ImageParts(Tail(images))

OpenAIMessage(msg, parts, isArray) ==
  [role |-> msg.role, kind |-> msg.kind, ts |-> msg.ts,
   content |-> parts, isArray |-> isArray]

\* callOpenAIChatCompletions, lines 502-543
ChatCompletionsMessage(msg) ==
  IF Len(msg.images) > 0
  THEN OpenAIMessage(msg, <<TextPart>> \o ImageParts(msg.images), TRUE)
  ELSE OpenAIMessage(msg, <<TextPart>>, FALSE)

ChatCompletionsMessages(msgs) ==
  [i \in 1..Len(msgs) |-> ChatCompletionsMessage(msgs[i])]

\* ------------------------------------------ the other providers' payloads
\* messages.find(m => m.role === 'system'): the first system turn, if any
FirstSystemMessage(msgs) ==
  LET IsSystem(m) == m.role = "system"
      found == SelectSeq(msgs, IsSystem)
  IN  IF found = <<>> THEN <<>> ELSE <<found[1]>>

\* messages.filter(m => m.role !== 'system')
ConversationMessages(msgs) ==
  LET NotSystem(m) == m.role # "system" IN SelectSeq(msgs, NotSystem)

AnthropicImagePart(image) == [type |-> "image", url |-> image]
InlineDataPart(image) == [type |-> "inlineData", url |-> image]

\* callAnthropic, lines 683-718
AnthropicMessage(msg) ==
  IF Len(msg.images) > 0
  THEN OpenAIMessage(msg, <<TextPart>> \o
                          [i \in 1..Len(msg.images) |-> AnthropicImagePart(msg.images[i])],
                     TRUE)
  ELSE OpenAIMessage(msg, <<TextPart>>, FALSE)

\* callAnthropic, lines 679-730: body.system, then body.messages
AnthropicBody(msgs) ==
  LET system == FirstSystemMessage(msgs)
      conversation == ConversationMessages(msgs)
  IN  [i \in 1..Len(system) |-> OpenAIMessage(system[i], <<TextPart>>, FALSE)]
      \o [i \in 1..Len(conversation) |-> AnthropicMessage(conversation[i])]

\* callGoogle, lines 613-631: an image whose download fails is left out
RECURSIVE InlineData(_, _)
InlineData(images, fetched) ==
  IF images = <<>> THEN <<>>
  ELSE (IF Head(fetched) THEN <<InlineDataPart(Head(images))>> ELSE <<>>)
       \o InlineData(Tail(images), Tail(fetched))

\* how the downloads of callGoogle's images can go
ImageFetches(provider, msgs) ==
  IF provider = "google" /\ hasImages(msgs)
  THEN [1..Len(msgs[Len(msgs)].images) -> BOOLEAN]
  ELSE {<<>>}

\* callGoogle, lines 599-661: with an image anywhere, the parts of the last
\* message alone; otherwise the prompt, 'Context: ' with the first system
\* turn and a line per turn of the conversation
GoogleContent(msgs, fetched) ==
  IF hasImages(msgs)
  THEN LET lastMessage == msgs[Len(msgs)]
       IN  <<OpenAIMessage(lastMessage,
                           <<TextPart>> \o InlineData(lastMessage.images, fetched),
                           TRUE)>>
  ELSE LET system == FirstSystemMessage(msgs)
           conversation == ConversationMessages(msgs)
       IN  [i \in 1..Len(system) |-> OpenAIMessage(system[i], <<TextPart>>, FALSE)]
           \o [i \in 1..Len(conversation) |->
                 [OpenAIMessage(conversation[i], <<TextPart>>, FALSE) EXCEPT
                    !.role = IF @ = "assistant" THEN "model" ELSE "user"]]

\* callDeepSeek and callPerplexity, lines 759-762 and 778-781: the messages
\* array as it is
MessagesAsTheyAre(msgs) ==
  [i \in 1..Len(msgs) |-> OpenAIMessage(msgs[i], <<TextPart>>, FALSE)]

ProviderBody(provider, msgs, fetched) ==
  CASE provider = "anthropic" -> AnthropicBody(msgs)
    [] provider = "google" -> GoogleContent(msgs, fetched)
    [] OTHER -> MessagesAsTheyAre(msgs)

\* callGoogle, callAnthropic, callDeepSeek, callPerplexity
OtherAdapter ==
  /\ pc = "httpAdapter"
  /\ \E reply \in HttpReplies, fetched \in ImageFetches(adapter.route, messages) :
       LET out == HttpAdapter(adapter.route, reply)
       IN  /\ adapter' = [adapter EXCEPT !.http = reply, !.usage = out.usage]
           /\ payload' = ProviderBody(adapter.route, messages, fetched)
           /\ IF out.kind = "result" THEN AdapterReturns
              ELSE AdapterThrows(out.error)
  /\ UNCHANGED <<beside, store, client, req, messages, dispatched, quotaRead,
                 usageAtCall, nUserReads, nExtract, extracts, nIncrements>>

\* uploadedFiles.find(uf => uf.originalFile.fileName === file.fileName)
FindUploaded(uploaded, file) ==
  LET hits == {i \in 1..Len(uploaded) : uploaded[i].file.fileName = file.fileName}
  IN  IF hits = {} THEN <<>>
      ELSE <<uploaded[CHOOSE i \in hits : \A j \in hits : i <= j]>>

RECURSIVE FileParts(_, _)
FileParts(files, uploaded) ==
  IF files = <<>> THEN <<>>
  ELSE LET found == FindUploaded(uploaded, Head(files))
       IN  (IF found = <<>> THEN <<>> ELSE <<FilePart(found[1])>>)
           \o FileParts(Tail(files), uploaded)

\* callOpenAIWithFilesAndImages, lines 409-463
FilesAndImagesMessage(msg, uploaded) ==
  OpenAIMessage(msg,
                <<TextPart>> \o FileParts(msg.files, uploaded)
                             \o ImageParts(msg.images),
                TRUE)

FilesAndImagesMessages(msgs, uploaded) ==
  [i \in 1..Len(msgs) |-> FilesAndImagesMessage(msgs[i], uploaded)]

RECURSIVE FilesOf(_)
\* the files of all messages, in the order the upload loops visit them
FilesOf(msgs) ==
  IF msgs = <<>> THEN <<>> ELSE Head(msgs).files \o FilesOf(Tail(msgs))

serverRest == <<req, messages, dispatched, quotaRead, usageAtCall, nUserReads,
                nExtract, extracts, nIncrements>>

\* ------------------------------------------------ callOpenAIChatCompletions
ChatCompletions ==
  /\ pc = "chatCompletions"
  /\ payload' = ChatCompletionsMessages(messages)
  /\ \/ \E usage \in UsageReports :
          /\ adapter' = [adapter EXCEPT !.completion = @ + 1, !.usage = usage]
          /\ AdapterReturns
     \/ /\ adapter' = [adapter EXCEPT !.completion = @ + 1]
        /\ AdapterThrows(SdkError)
  /\ UNCHANGED <<beside, store, client, serverRest>>

\* ------------------------------------------------- callOpenAIWithAssistants
UploadOutcomes == {"ok", "fetchFail", "uploadFail"}
RunStatuses == {"queued", "in_progress", "completed", "failed", "expired"}
Uploaded(k, file) == [id |-> k, name |-> file.fileName, file |-> file]

\* a file that cannot be downloaded or uploaded left out, the steps going on
AsstUploadFileSkipping ==
  /\ pc = "assistants"
  /\ LET all == FilesOf(messages)
         k == Len(adapter.fetched) + 1
     IN  \E outcome \in UploadOutcomes :
           /\ adapter' = [adapter EXCEPT
                            !.fetched = Append(@, all[k].url),
                            !.uploaded = IF outcome = "ok"
                                         THEN Append(@, Uploaded(k, all[k]))
                                         ELSE @]
           /\ pc' = IF k = Len(all) THEN "as_assistant" ELSE "assistants"
           /\ UNCHANGED <<thrown, response, aiResponse>>
  /\ UNCHANGED <<beside, store, client, serverRest, payload>>

\* Step 1, one file per step: download from storage, upload to the provider
AsstUploadFile ==
  /\ pc = "assistants"
  /\ LET all == FilesOf(messages)
         k == Len(adapter.uploaded) + 1
     IN  \E outcome \in UploadOutcomes :
           IF outcome = "ok"
           THEN /\ adapter' = [adapter EXCEPT
                                 !.fetched = Append(@, all[k].url),
                                 !.uploaded = Append(@, Uploaded(k, all[k]))]
                /\ pc' = IF k = Len(all) THEN "as_assistant" ELSE "assistants"
                /\ UNCHANGED <<thrown, response, aiResponse>>
           ELSE /\ adapter' = [adapter EXCEPT !.fetched = Append(@, all[k].url)]
                /\ AdapterThrows(IF outcome = "fetchFail"
                                 THEN Failure("Failed to download file", 404, "")
                                 ELSE SdkError)
  /\ UNCHANGED <<beside, store, client, serverRest, payload>>

\* Step 2
AsstCreateAssistant ==
  /\ pc = "as_assistant"
  /\ \E ok \in BOOLEAN :
       IF ok
       THEN /\ adapter' = [adapter EXCEPT !.assistant = "created"]
            /\ pc' = "as_thread"
            /\ UNCHANGED <<thrown, response, aiResponse>>
       ELSE AdapterThrows(SdkError) /\ UNCHANGED adapter
  /\ UNCHANGED <<beside, store, client, serverRest, payload>>

\* Step 3
AsstCreateThread ==
  /\ pc = "as_thread"
  /\ \E ok \in BOOLEAN :
       IF ok
       THEN /\ adapter' = [adapter EXCEPT !.thread = "created"]
            /\ pc' = "as_messages"
            /\ UNCHANGED <<thrown, response, aiResponse>>
       ELSE AdapterThrows(SdkError) /\ UNCHANGED adapter
  /\ UNCHANGED <<beside, store, client, serverRest, payload>>

\* `if (message.role === 'system') continue`
ThreadTurns(msgs) ==
  LET NotSystem(m) == m.role # "system" IN SelectSeq(msgs, NotSystem)

RECURSIVE Attachments(_, _)
\* message.files.map(find by file name).filter(Boolean)
Attachments(files, uploaded) ==
  IF files = <<>> THEN <<>>
  ELSE LET found == FindUploaded(uploaded, Head(files))
       IN  (IF found = <<>> THEN <<>> ELSE <<found[1].id>>)
           \o Attachments(Tail(files), uploaded)

ThreadMessage(msg, uploaded) ==
  [role |-> msg.role, kind |-> msg.kind, ts |-> msg.ts,
   attachments |-> Attachments(msg.files, uploaded)]

\* Step 4, one message per step
AsstAppendMessage ==
  /\ pc = "as_messages"
  /\ LET turns == ThreadTurns(messages)
         k == Len(adapter.appended) + 1
     IN  \E ok \in BOOLEAN :
           IF ok
           THEN /\ adapter' = [adapter EXCEPT !.appended =
                                 Append(@, ThreadMessage(turns[k], adapter.uploaded))]
                /\ pc' = IF k = Len(turns) THEN "as_run" ELSE "as_messages"
                /\ UNCHANGED <<thrown, response, aiResponse>>
           ELSE AdapterThrows(SdkError) /\ UNCHANGED adapter
  /\ UNCHANGED <<beside, store, client, serverRest, payload>>

\* Step 5
AsstStartRun ==
  /\ pc = "as_run"
  /\ \E ok \in BOOLEAN :
       IF ok
       THEN /\ adapter' = [adapter EXCEPT !.run = "created", !.completion = @ + 1]
            /\ pc' = "as_poll"
            /\ UNCHANGED <<thrown, response, aiResponse>>
       ELSE AdapterThrows(SdkError) /\ UNCHANGED adapter
  /\ UNCHANGED <<beside, store, client, serverRest, payload>>

\* Step 6: runs.retrieve, again after a second while queued or in_progress
AsstRetrieveRun ==
  /\ pc = "as_poll"
  /\ \/ \E s \in RunStatuses :
          /\ s \in {"queued", "in_progress"} => adapter.polls < MaxPolls
          /\ adapter' = [adapter EXCEPT !.status = s, !.polls = @ + 1]
          /\ IF s \in {"queued", "in_progress"}
             THEN pc' = "as_poll" /\ UNCHANGED <<thrown, response, aiResponse>>
             ELSE IF s = "completed"
             THEN pc' = "as_list" /\ UNCHANGED <<thrown, response, aiResponse>>
             ELSE AdapterThrows(Failure("Assistant run failed", 0, s))
     \/ AdapterThrows(SdkError) /\ UNCHANGED adapter
  /\ UNCHANGED <<beside, store, client, serverRest, payload>>

\* lines 328-353: the thread's messages, the first assistant message, its
\* first content part
ThreadReplies == {"text", "noAssistantMessage", "notText", "listFails"}
AsstListMessages ==
  /\ pc = "as_list"
  /\ \E reply \in ThreadReplies :
       /\ adapter' = [adapter EXCEPT !.reply = reply]
       /\ CASE reply = "text" ->
                 /\ pc' = "as_deleteAssistant"
                 /\ UNCHANGED <<thrown, response, aiResponse>>
            [] reply = "listFails" -> AdapterThrows(SdkError)
            [] OTHER -> AdapterReturnsUndefined
  /\ UNCHANGED <<beside, store, client, serverRest, payload>>

\* line 339
AsstDeleteAssistant ==
  /\ pc = "as_deleteAssistant"
  /\ adapter' = [adapter EXCEPT !.deleteAssistant = TRUE]
  /\ \E ok \in BOOLEAN :
       IF ok
       THEN /\ pc' = "as_deleteFiles"
            /\ UNCHANGED <<thrown, response, aiResponse>>
       ELSE AdapterThrows(SdkError)
  /\ UNCHANGED <<beside, store, client, serverRest, payload>>

\* lines 340-342, one file per step
AsstDeleteFile ==
  /\ pc = "as_deleteFiles"
  /\ LET k == Len(adapter.deleteFiles) + 1
         deleted == Append(adapter.deleteFiles, adapter.uploaded[k].id)
     IN  \E ok \in BOOLEAN :
           IF ok
           THEN IF k = Len(adapter.uploaded)
                THEN /\ adapter' = [adapter EXCEPT !.deleteFiles = deleted,
                                                   !.usage = ZeroUsage]
                     /\ AdapterReturns
                ELSE /\ adapter' = [adapter EXCEPT !.deleteFiles = deleted]
                     /\ pc' = "as_deleteFiles"
                     /\ UNCHANGED <<thrown, response, aiResponse>>
           ELSE /\ adapter' = [adapter EXCEPT !.deleteFiles = deleted]
                /\ AdapterThrows(SdkError)
  /\ UNCHANGED <<beside, store, client, serverRest, payload>>

\* --------------------------------------------- callOpenAIWithFilesAndImages
\* Step 1, one file per step: download, files.create, files.retrieve
HybridUploadFile ==
  /\ pc = "filesAndImages"
  /\ LET all == FilesOf(messages)
         k == Len(adapter.uploaded) + 1
     IN  \E outcome \in UploadOutcomes \cup {"retrieveFail"} :
           CASE outcome = "ok" ->
                  /\ adapter' = [adapter EXCEPT
                                   !.fetched = Append(@, all[k].url),
                                   !.uploaded = Append(@, Uploaded(k, all[k]))]
                  /\ pc' = IF k = Len(all) THEN "fi_completion"
                           ELSE "filesAndImages"
                  /\ UNCHANGED <<thrown, response, aiResponse>>
             [] outcome = "retrieveFail" ->
                  \* uploaded to the provider, not yet recorded in the list
                  /\ adapter' = [adapter EXCEPT
                                   !.fetched = Append(@, all[k].url),
                                   !.unlisted = @ + 1]
                  /\ AdapterThrows(SdkError)
             [] OTHER ->
                  /\ adapter' = [adapter EXCEPT !.fetched = Append(@, all[k].url)]
                  /\ AdapterThrows(IF outcome = "fetchFail"
                                   THEN Failure("Failed to download file", 404, "")
                                   ELSE SdkError)
  /\ UNCHANGED <<beside, store, client, serverRest, payload>>

\* Steps 2 and 3: the message array, then the one completion call
HybridCompletion ==
  /\ pc = "fi_completion"
  /\ payload' = FilesAndImagesMessages(messages, adapter.uploaded)
  /\ \/ \E usage \in UsageReports :
          /\ adapter' = [adapter EXCEPT !.completion = @ + 1, !.usage = usage]
          /\ pc' = "fi_cleanup"
          /\ UNCHANGED <<thrown, response, aiResponse>>
     \/ /\ adapter' = [adapter EXCEPT !.completion = @ + 1]
        /\ AdapterThrows(SdkError)
  /\ UNCHANGED <<beside, store, client, serverRest>>

\* Step 4, one file per step; a failing delete is logged and skipped
HybridDeleteFile ==
  /\ pc = "fi_cleanup"
  /\ LET k == Len(adapter.deleteFiles) + 1
     IN  /\ adapter' = [adapter EXCEPT
                          !.deleteFiles = Append(@, adapter.uploaded[k].id)]
         /\ IF k = Len(adapter.uploaded)
            THEN AdapterReturns
            ELSE /\ pc' = "fi_cleanup"
                 /\ UNCHANGED <<thrown, response, aiResponse>>
  /\ UNCHANGED <<beside, store, client, serverRest, payload>>

\* ------------------------------------------- sendMessageV2, after the call
\* lines 1628-1641: FieldValue.increment(1), then the return
UsageIncrement(n) == n + 1

\* usage?.prompt_tokens || 0, usage?.completion_tokens || 0,
\* usage?.total_tokens || 0
ReturnedUsage(usage) ==
  [promptTokens |-> OrZero(usage.prompt_tokens),
   completionTokens |-> OrZero(usage.completion_tokens),
   totalTokens |-> OrZero(usage.total_tokens)]

UpdateUsage ==
  /\ pc = "updateUsage"
  /\ users' = [users EXCEPT ![req.uid].messagesThisMonth = UsageIncrement(@)]
  /\ nIncrements' = nIncrements + 1
  /\ response' = OkResponse(ReturnedUsage(adapter.usage))
  /\ pc' = "done"
  /\ UNCHANGED <<beside, chats, project, stored, client, req, messages, thrown,
                 aiResponse, dispatched, payload, quotaRead, usageAtCall,
                 nUserReads, nExtract, extracts, adapter>>

\* the caller gets the response; the invocation is over
Respond ==
  /\ pc = "done"
  /\ pc' = "idle"
  /\ req' = NoReq
  /\ messages' = <<>>
  /\ thrown' = NoError
  /\ response' = NoResponse
  /\ aiResponse' = "none"
  /\ dispatched' = <<>>
  /\ payload' = <<>>
  /\ quotaRead' = -1
  /\ usageAtCall' = 0
  /\ nUserReads' = 0
  /\ nExtract' = 0
  /\ extracts' = <<>>
  /\ nIncrements' = 0
  /\ adapter' = AdapterIdle
  /\ cpc' = IF cpc = "waiting"
            THEN (IF response.code = "ok" THEN "addAssistant" ELSE "markError")
            ELSE cpc
  /\ UNCHANGED <<beside, store, snapLen, nSends>>

\* ------------------------------------------- ChatProvider.sendMessage
\* The signed-in user is u1 and the current chat is c1.
NextTs(S) == Cardinality(S) + 1

\* setDoc(userMessageRef, userMessage), status 'sending'
ClientSetDoc ==
  /\ cpc = "idle"
  /\ pc = "idle"
  /\ nSends < MaxSends
  /\ nSends' = nSends + 1
  /\ users["u1"].messagesThisMonth < MaxUsage
  /\ snapLen' = Cardinality(stored["c1"])
  /\ stored' = [stored EXCEPT !["c1"] =
                  @ \cup {StoredTurn(NextTs(@), "user", "sending")}]
  /\ cpc' = "markSent"
  /\ UNCHANGED <<beside, users, chats, project, server, adapter>>

SetStatus(S, ts, status) ==
  {IF m.ts = ts THEN [m EXCEPT !.status = status] ELSE m : m \in S}

\* updateDoc(userMessageRef, { status: 'sent' }), then sendMessageApi(...)
ClientCallApi ==
  /\ cpc = "markSent"
  /\ stored' = [stored EXCEPT !["c1"] = SetStatus(@, snapLen + 1, "sent")]
  /\ Call([uid |-> "u1", chatId |-> "c1", provider |-> "openai",
           files |-> <<>>, images |-> <<>>])
  /\ cpc' = "waiting"
  /\ UNCHANGED <<beside, users, chats, project, snapLen, nSends>>

\* addDoc(collection(db, 'chats', currentChat.id, 'messages'), ...)
ClientAddAssistant ==
  /\ cpc = "addAssistant"
  /\ stored' = [stored EXCEPT !["c1"] =
                  @ \cup {StoredTurn(NextTs(@), "assistant", "sent")}]
  /\ cpc' = "updateMeta"
  /\ UNCHANGED <<beside, users, chats, project, server, adapter, snapLen, nSends>>

\* updateDoc(doc(db, 'chats', currentChat.id), { messageCount: ... })
ClientUpdateMeta ==
  /\ cpc = "updateMeta"
  /\ chats' = [chats EXCEPT !["c1"].messageCount = snapLen + 2]
  /\ cpc' = "idle"
  /\ UNCHANGED <<beside, users, project, stored, server, adapter, snapLen, nSends>>

\* catch (apiError): updateDoc(userMessageRef, { status: 'error' })
ClientMarkError ==
  /\ cpc = "markError"
  /\ stored' = [stored EXCEPT !["c1"] = SetStatus(@, snapLen + 1, "error")]
  /\ cpc' = "idle"
  /\ UNCHANGED <<beside, users, chats, project, server, adapter, snapLen, nSends>>

\* ------------------------------------- sendMessageV2, side by side
\* Invocations of the callable by u1 on the own chat c1 that run in one
\* instance at the same time (concurrency: 100): each stands between two of
\* its awaits on users/u1, and all of them read and write the one document.
CallFrame ==
  UNCHANGED <<chats, project, stored, server, adapter, client, catalog, access,
              tabs, chatCount>>

\* lines 1426-1437: the read of users/{uid} and the quota check
ConcurrentCheckUser(k) ==
  /\ calls[k].at = "idle"
  /\ calls' = [calls EXCEPT ![k] =
                 [at |-> IF QuotaExceeded(users["u1"]) THEN "refused" ELSE "admitted",
                  read |-> users["u1"].messagesThisMonth]]
  /\ UNCHANGED users
  /\ CallFrame

\* lines 1439-1609: history, context, files and the call of callAIProvider,
\* which gives a result or throws
ConcurrentCallAIProvider(k) ==
  /\ calls[k].at = "admitted"
  /\ \E ok \in BOOLEAN :
       calls' = [calls EXCEPT ![k].at = IF ok THEN "answered" ELSE "failed"]
  /\ UNCHANGED users
  /\ CallFrame

\* lines 1628-1631: FieldValue.increment(1)
ConcurrentUpdateUsage(k) ==
  /\ calls[k].at = "answered"
  /\ users' = [users EXCEPT !["u1"].messagesThisMonth = UsageIncrement(@)]
  /\ calls' = [calls EXCEPT ![k].at = "returned"]
  /\ CallFrame

\* the return at 1633-1641 or the catch at 1642-1645: the invocation is over
ConcurrentRespond(k) ==
  /\ calls[k].at \in {"refused", "failed", "returned"}
  /\ calls' = [calls EXCEPT ![k] = CallIdle]
  /\ UNCHANGED users
  /\ CallFrame

\* ------------------------------- ChatProvider.sendMessage, tab by tab
\* The same handler running in several tabs of u1's browser, all on chat c1.
\* A tab's `messages` is the array its handler closed over when it was
\* called; the callable's answer is all the handler uses of the server.
TabFrame ==
  UNCHANGED <<users, project, server, adapter, client, catalog, access, calls,
              chatCount>>

\* lines 342-354: setDoc(userMessageRef, userMessage), status 'sending'
TabSetDoc(t) ==
  /\ tabs[t].at = "idle"
  /\ tabs[t].sends < MaxSends
  /\ LET ts == NextTs(stored["c1"])
     IN  /\ stored' = [stored EXCEPT !["c1"] =
                         @ \cup {StoredTurn(ts, "user", "sending")}]
         /\ tabs' = [tabs EXCEPT ![t] =
                       [at |-> "markSent", seen |-> Cardinality(stored["c1"]),
                        ts |-> ts, sends |-> @.sends + 1]]
  /\ UNCHANGED chats
  /\ TabFrame

\* lines 357-366: updateDoc(userMessageRef, { status: 'sent' }), then the
\* call of sendMessageApi, which resolves or rejects
TabCallApi(t) ==
  /\ tabs[t].at = "markSent"
  /\ stored' = [stored EXCEPT !["c1"] = SetStatus(@, tabs[t].ts, "sent")]
  /\ \E ok \in BOOLEAN :
       tabs' = [tabs EXCEPT ![t].at = IF ok THEN "addAssistant" ELSE "markError"]
  /\ UNCHANGED chats
  /\ TabFrame

\* lines 371-377: addDoc(collection(db, 'chats', currentChat.id, 'messages'), ...)
TabAddAssistant(t) ==
  /\ tabs[t].at = "addAssistant"
  /\ stored' = [stored EXCEPT !["c1"] =
                  @ \cup {StoredTurn(NextTs(@), "assistant", "sent")}]
  /\ tabs' = [tabs EXCEPT ![t].at = "updateMeta"]
  /\ UNCHANGED chats
  /\ TabFrame

\* lines 380-383: updateDoc(doc(db, 'chats', currentChat.id),
\* { messageCount: messages.length + 2 })
TabUpdateMeta(t) ==
  /\ tabs[t].at = "updateMeta"
  /\ chats' = [chats EXCEPT !["c1"].messageCount = tabs[t].seen + 2]
  /\ tabs' = [tabs EXCEPT ![t].at = "idle"]
  /\ UNCHANGED stored
  /\ TabFrame

\* lines 385-392: updateDoc(userMessageRef, { status: 'error' })
TabMarkError(t) ==
  /\ tabs[t].at = "markError"
  /\ stored' = [stored EXCEPT !["c1"] = SetStatus(@, tabs[t].ts, "error")]
  /\ tabs' = [tabs EXCEPT ![t].at = "idle"]
  /\ UNCHANGED chats
  /\ TabFrame

\* ------------------------------------------------- chats and projects
\* The operations that create, delete and move chats.  Every project belongs
\* to u1, the user signed in to the browser; every write succeeds.
ProjectOwner(p) == "u1"

ProjectFrame ==
  UNCHANGED <<users, project, server, adapter, client, catalog, access, sideBySide>>

\* chatCount: increment(n) on projects/{p}, for a chat that names a project
IncrementChatCount(counts, p, n) ==
  IF p = NoProject THEN counts ELSE [counts EXCEPT ![p] = @ + n]

\* createNewChatV2, lines 814-860: the project's owner check, the new chat
\* document, the project's chatCount
CreateNewChatV2(uid, projectId) ==
  /\ projectId # NoProject => ProjectOwner(projectId) = uid /\ chatCount[projectId] < MaxCount
  /\ \E c \in ChatIds :
       /\ ~chats[c].exists
       /\ chats' = [chats EXCEPT ![c] = [exists |-> TRUE, userId |-> uid,
                                         projectId |-> projectId, messageCount |-> 0]]
  /\ chatCount' = IncrementChatCount(chatCount, projectId, 1)
  /\ UNCHANGED stored
  /\ ProjectFrame

\* deleteChatV2, lines 1325-1361: the owner check, then one batch that
\* deletes the chat's messages and the chat
DeleteChatV2(uid, chatId) ==
  /\ chats[chatId].exists
  /\ chats[chatId].userId = uid
  /\ stored' = [stored EXCEPT ![chatId] = {}]
  /\ chats' = [chats EXCEPT ![chatId].exists = FALSE]
  /\ UNCHANGED chatCount
  /\ ProjectFrame

\* ChatProvider.deleteChat, lines 407-437: the chat taken from the user's
\* own list, deleteDoc, then increment(-1) on its project
ClientDeleteChat(chatId) ==
  /\ chats[chatId].exists
  /\ chats[chatId].userId = "u1"
  /\ chats' = [chats EXCEPT ![chatId].exists = FALSE]
  /\ chatCount' = IncrementChatCount(chatCount, chats[chatId].projectId, -1)
  /\ UNCHANGED stored
  /\ ProjectFrame

\* ChatProvider.updateChatProject, lines 451-514: the chat's projectId set or
\* removed, increment(-1) on the old project, increment(1) on the new one
UpdateChatProject(chatId, projectId) ==
  /\ chats[chatId].exists
  /\ chats[chatId].userId = "u1"
  /\ projectId # NoProject => chatCount[projectId] < MaxCount
  /\ chats' = [chats EXCEPT ![chatId].projectId = projectId]
  /\ chatCount' = IncrementChatCount(
                     IncrementChatCount(chatCount, chats[chatId].projectId, -1),
                     projectId, 1)
  /\ UNCHANGED stored
  /\ ProjectFrame

\* ------------------------------------------------- the model-list helpers
\* What a provider's models endpoint answers: nothing (fetch rejects), a
\* status other than 2xx, a 2xx body without the array of models, or a 2xx
\* body with the models.  A listed model has its id and whether the
\* helper's filter on ids, names and types keeps it.
LiveModels == {[id |-> "m1", kept |-> TRUE], [id |-> "m2", kept |-> FALSE]}

ListReplies ==
  { [kind |-> "network", status |-> 0, data |-> <<>>],
    [kind |-> "http", status |-> 500, data |-> <<>>],
    [kind |-> "malformed", status |-> 200, data |-> <<>>] }
    \cup [kind : {"list"}, status : {200}, data : SeqsUpTo(LiveModels, MaxModels)]

ModelEntry(provider, id) == [id |-> id, provider |-> provider, available |-> TRUE]

\* data.data.filter(...).map(...)
LiveCatalog(provider, data) ==
  LET Kept(m) == m.kept
      kept == SelectSeq(data, Kept)
  IN  [i \in 1..Len(kept) |-> ModelEntry(provider, kept[i].id)]

\* the array returned by a helper's catch block
FallbackIds(provider) ==
  CASE provider = "google" ->
         <<"gemini-2.0-flash-exp", "gemini-1.5-pro-latest", "gemini-1.5-flash",
           "gemini-1.5-flash-8b">>
    [] provider = "anthropic" ->
         <<"claude-3-5-sonnet-20241022", "claude-3-opus-20240229",
           "claude-3-haiku-20240307">>
    [] provider = "deepseek" -> <<"deepseek-chat", "deepseek-coder">>
    [] provider = "perplexity" ->
         <<"llama-3.1-sonar-huge-128k-online", "llama-3.1-sonar-large-128k-online",
           "llama-3.1-sonar-small-128k-online", "llama-3.1-sonar-large-128k-chat",
           "llama-3.1-sonar-small-128k-chat", "llama-3.1-8b-instruct",
           "llama-3.1-70b-instruct">>

FallbackCatalog(provider) ==
  LET ids == FallbackIds(provider)
  IN  [i \in 1..Len(ids) |-> ModelEntry(provider, ids[i])]

\* the try block of a helper: the fetch, the status test, the JSON body and
\* the filter; TRUE when it throws
ListThrows(reply) == reply.kind # "list" \/ ~Ok(reply)

Fetched(reply, threw, models) ==
  [fetch |-> reply, threw |-> threw, models |-> models]

\* getOpenAIModels has no try/catch: what the fetch, the status test or the
\* body raises leaves the function
getOpenAIModels(reply) ==
  IF ListThrows(reply) THEN Fetched(reply, TRUE, <<>>)
  ELSE Fetched(reply, FALSE, LiveCatalog("openai", reply.data))

\* getGoogleModels, getAnthropicModels, getDeepSeekModels,
\* getPerplexityModels: try { live list } catch { return the fallback }
getModelsWithFallback(provider, reply) ==
  IF ListThrows(reply) THEN Fetched(reply, FALSE, FallbackCatalog(provider))
  ELSE Fetched(reply, FALSE, LiveCatalog(provider, reply.data))

GetModels(provider, result) ==
  /\ catalog' = [catalog EXCEPT ![provider] = result]
  /\ UNCHANGED <<store, server, adapter, client, access, sideBySide, chatCount>>

GetOpenAIModels ==
  \E reply \in ListReplies : GetModels("openai", getOpenAIModels(reply))

GetGoogleModels ==
  \E reply \in ListReplies :
    GetModels("google", getModelsWithFallback("google", reply))

GetAnthropicModels ==
  \E reply \in ListReplies :
    GetModels("anthropic", getModelsWithFallback("anthropic", reply))

GetDeepSeekModels ==
  \E reply \in ListReplies :
    GetModels("deepseek", getModelsWithFallback("deepseek", reply))

GetPerplexityModels ==
  \E reply \in ListReplies :
    GetModels("perplexity", getModelsWithFallback("perplexity", reply))

\* ------------------------------------------------------- firestore.rules
\* Requests that a signed-in or anonymous client sends to Firestore itself;
\* each is decided by the rules and carried out when allowed.
RuleOps == {"read", "create", "update", "delete"}
\* the chats the requests are about: both exist at first, each may be deleted
RuleChats == {"c1", "c2"}

\* the userId of the chat document, "none" when there is no document: a
\* condition that reads a field of a missing document does not hold
OwnerOf(c) == IF chats[c].exists THEN chats[c].userId ELSE "none"

\* match /chats/{chatId}
ChatRule(uid, op, resourceOwner, requestOwner) ==
  \/ op \in {"read", "update", "delete"} /\ uid \in Users /\ resourceOwner = uid
  \/ op = "create" /\ uid \in Users /\ uid = requestOwner

\* match /chats/{chatId}/messages/{messageId}
MessageRule(uid, op, chatOwner) ==
  \/ op \in RuleOps /\ uid \in Users /\ chatOwner = uid
  \/ op = "create" /\ uid \in Users

Decision(uid, op, target, c, owner, allowed) ==
  [uid |-> uid, op |-> op, target |-> target, chatId |-> c, owner |-> owner,
   allowed |-> allowed]

RulesFrame ==
  UNCHANGED <<users, project, server, adapter, client, catalog, sideBySide, chatCount>>

ChatRead ==
  \E uid \in Callers, c \in RuleChats :
    /\ access' = Decision(uid, "read", "chat", c, OwnerOf(c),
                          ChatRule(uid, "read", OwnerOf(c), "none"))
    /\ UNCHANGED <<chats, stored>>
    /\ RulesFrame

\* a document that does not exist yet, written with the given userId
ChatCreate ==
  \E uid \in Callers, c \in RuleChats, owner \in Users :
    /\ ~chats[c].exists
    /\ LET allowed == ChatRule(uid, "create", "none", owner)
       IN  /\ access' = Decision(uid, "create", "chat", c, owner, allowed)
           /\ chats' = IF allowed
                       THEN [chats EXCEPT ![c].exists = TRUE, ![c].userId = owner]
                       ELSE chats
    /\ UNCHANGED stored
    /\ RulesFrame

\* the rule looks at the stored userId only: the update may write another
ChatUpdate ==
  \E uid \in Callers, c \in RuleChats, owner \in Users :
    /\ LET allowed == ChatRule(uid, "update", OwnerOf(c), owner)
       IN  /\ access' = Decision(uid, "update", "chat", c, OwnerOf(c), allowed)
           /\ chats' = IF allowed THEN [chats EXCEPT ![c].userId = owner]
                       ELSE chats
    /\ UNCHANGED stored
    /\ RulesFrame

\* the messages of a deleted chat stay where they are
ChatDelete ==
  \E uid \in Callers, c \in RuleChats :
    /\ LET allowed == ChatRule(uid, "delete", OwnerOf(c), "none")
       IN  /\ access' = Decision(uid, "delete", "chat", c, OwnerOf(c), allowed)
           /\ chats' = IF allowed THEN [chats EXCEPT ![c].exists = FALSE]
                       ELSE chats
    /\ UNCHANGED stored
    /\ RulesFrame

MessageRead ==
  \E uid \in Callers, c \in RuleChats :
    /\ access' = Decision(uid, "read", "message", c, OwnerOf(c),
                          MessageRule(uid, "read", OwnerOf(c)))
    /\ UNCHANGED <<chats, stored>>
    /\ RulesFrame

MessageCreate ==
  \E uid \in Callers, c \in RuleChats :
    /\ Cardinality(stored[c]) < MaxDocs
    /\ LET allowed == MessageRule(uid, "create", OwnerOf(c))
       IN  /\ access' = Decision(uid, "create", "message", c, OwnerOf(c), allowed)
           /\ stored' = IF allowed
                        THEN [stored EXCEPT ![c] =
                                @ \cup {StoredTurn(NextTs(@), "user", "sent")}]
                        ELSE stored
    /\ UNCHANGED chats
    /\ RulesFrame

MessageUpdate ==
  \E uid \in Callers, c \in RuleChats :
    \E m \in stored[c] :
      /\ LET allowed == MessageRule(uid, "update", OwnerOf(c))
         IN  /\ access' = Decision(uid, "update", "message", c, OwnerOf(c), allowed)
             /\ stored' = IF allowed
                          THEN [stored EXCEPT ![c] = SetStatus(@, m.ts, "error")]
                          ELSE stored
      /\ UNCHANGED chats
      /\ RulesFrame

MessageDelete ==
  \E uid \in Callers, c \in RuleChats :
    \E m \in stored[c] :
      /\ LET allowed == MessageRule(uid, "delete", OwnerOf(c))
         IN  /\ access' = Decision(uid, "delete", "message", c, OwnerOf(c), allowed)
             /\ stored' = IF allowed THEN [stored EXCEPT ![c] = @ \ {m}]
                          ELSE stored
      /\ UNCHANGED chats
      /\ RulesFrame

\* ---------------------------------------------------------- specifications
Handler ==
  \/ VerifyOwner \/ CheckUser \/ LoadHistory \/ HandleFiles \/ CallAIProvider

Completion == UpdateUsage \/ Respond

AssistantsAdapter ==
  \/ AsstUploadFile \/ AsstCreateAssistant \/ AsstCreateThread
  \/ AsstAppendMessage \/ AsstStartRun \/ AsstRetrieveRun \/ AsstListMessages
  \/ AsstDeleteAssistant \/ AsstDeleteFile

FilesAndImagesAdapter == HybridUploadFile \/ HybridCompletion \/ HybridDeleteFile

Browser ==
  \/ ClientSetDoc \/ ClientCallApi \/ ClientAddAssistant \/ ClientUpdateMeta
  \/ ClientMarkError

NoProjectDoc ==
  [exists |-> FALSE, instructions |-> FALSE, sharedContext |-> FALSE,
   systemPrompt |-> FALSE, files |-> "absent"]

FullProjectDoc ==
  [exists |-> TRUE, instructions |-> TRUE, sharedContext |-> TRUE,
   systemPrompt |-> TRUE, files |-> "content"]

\* Spec: the whole send, from the browser or from any caller of the
\* callable, through every route of the dispatch.
SpecRequests ==
  Requests(Callers, ChatIds, {"openai", "anthropic", "unknown"},
           FileLists(1), ImageLists(1))

Init ==
  /\ InitStore(Plans, (FreeLimit - 1)..(FreeLimit + 1), {NoProject, "p1"},
               {FullProjectDoc}, {0, 2})
  /\ ServerIdle

Next ==
  \/ DirectCall(SpecRequests)
  \/ Handler
  \/ LoadProject
  \/ ChatCompletions
  \/ OtherAdapter
  \/ AssistantsAdapter
  \/ FilesAndImagesAdapter
  \/ Completion
  \/ Browser

Spec == Init /\ [][Next]_vars

\* SpecContext: the owner's requests on chats of every length around the
\* history limit and projects with every combination of fields, up to the
\* call of callAIProvider.
ContextRequests ==
  Requests({"u1"}, {"c1"}, {"openai", "anthropic"}, FileLists(MaxFiles),
           ImageLists(1))

ContextLengths == {0} \cup ((HistoryLimit - 1)..(HistoryLimit + MaxExtra))

InitContext ==
  /\ InitStore({"monthly_pro"}, {0}, {NoProject, "p1"},
               {d \in ProjectDocs : d.exists} \cup {NoProjectDoc},
               ContextLengths)
  /\ ServerIdle

NextContext ==
  \/ DirectCall(ContextRequests)
  \/ Handler
  \/ LoadProject

SpecContext == InitContext /\ [][NextContext]_vars

\* SpecImages: requests to openai with every list of images, with and
\* without a file, through the two adapters that build image parts.
ImageRequests ==
  {r \in Requests({"u1"}, {"c1"}, {"openai"}, FileLists(1),
                  ImageLists(MaxImages)) :
     Len(r.files) > 0 => Len(r.images) > 0}

InitImages ==
  /\ InitStore({"monthly_pro"}, {0}, {NoProject}, {NoProjectDoc}, {0, 2})
  /\ ServerIdle

NextImages ==
  \/ DirectCall(ImageRequests)
  \/ Handler
  \/ ChatCompletions
  \/ FilesAndImagesAdapter
  \/ Completion

SpecImages == InitImages /\ [][NextImages]_vars

\* SpecQuota: a free-tier user near the monthly limit whose invocations of
\* sendMessageV2 run side by side.
InitQuota ==
  /\ InitStore({"free"}, (FreeLimit - 2)..FreeLimit, {NoProject}, {NoProjectDoc}, {0})
  /\ ServerIdle

NextQuota ==
  \E k \in Calls :
    \/ ConcurrentCheckUser(k)
    \/ ConcurrentCallAIProvider(k)
    \/ ConcurrentUpdateUsage(k)
    \/ ConcurrentRespond(k)

SpecQuota == InitQuota /\ [][NextQuota]_vars

\* SpecProjects: chats created, deleted and moved between projects.
InitProjects ==
  /\ InitStore({"monthly_pro"}, {0}, {NoProject} \cup Projects, {NoProjectDoc}, {0, 2})
  /\ ServerIdle

NextProjects ==
  \/ \E uid \in Users, projectId \in Projects \cup {NoProject} :
       CreateNewChatV2(uid, projectId)
  \/ \E uid \in Users, chatId \in ChatIds : DeleteChatV2(uid, chatId)
  \/ \E chatId \in ChatIds : ClientDeleteChat(chatId)
  \/ \E chatId \in ChatIds, projectId \in Projects \cup {NoProject} :
       UpdateChatProject(chatId, projectId)

SpecProjects == InitProjects /\ [][NextProjects]_vars

\* SpecNormalize: requests to anthropic and google on a chat with history,
\* with and without a project, a file and an image, through the adapters.
NormalizeRequests ==
  Requests({"u1"}, {"c1"}, {"anthropic", "google"}, FileLists(1), ImageLists(1))

InitNormalize ==
  /\ InitStore({"monthly_pro"}, {0}, {NoProject, "p1"},
               {NoProjectDoc, FullProjectDoc}, {0, 2})
  /\ ServerIdle

NextNormalize ==
  \/ DirectCall(NormalizeRequests)
  \/ Handler
  \/ LoadProject
  \/ OtherAdapter
  \/ Completion

SpecNormalize == InitNormalize /\ [][NextNormalize]_vars

\* SpecTabs: sends from several tabs of u1's browser to chat c1, their
\* Firestore writes interleaved.
InitTabs ==
  /\ InitStore({"monthly_pro"}, {0}, {NoProject}, {NoProjectDoc}, {0, 2})
  /\ ServerIdle

NextTabs ==
  \E t \in Tabs :
    \/ TabSetDoc(t)
    \/ TabCallApi(t)
    \/ TabAddAssistant(t)
    \/ TabUpdateMeta(t)
    \/ TabMarkError(t)

SpecTabs == InitTabs /\ [][NextTabs]_vars

\* SpecAssistants: requests to openai with files and no image: the
\* Assistants adapter, step by step.
AssistantsRequests ==
  {r \in Requests({"u1"}, {"c1"}, {"openai"}, FileLists(MaxFiles), {<<>>}) :
     Len(r.files) > 0}

InitAssistants ==
  /\ InitStore({"monthly_pro"}, {0}, {NoProject}, {NoProjectDoc}, {0, 2})
  /\ ServerIdle

NextAssistants ==
  \/ DirectCall(AssistantsRequests)
  \/ Handler
  \/ AssistantsAdapter
  \/ Completion

SpecAssistants == InitAssistants /\ [][NextAssistants]_vars

\* SpecProviders: any user's text requests to every provider, through the
\* HTTP adapters and the chat-completions adapter, against every answer of
\* the provider.
ProviderRequests ==
  Requests(Users, ChatIds, Providers \cup {"unknown"}, {<<>>}, {<<>>})

InitProviders ==
  /\ InitStore(Plans, {FreeLimit - 1, FreeLimit}, {NoProject}, {NoProjectDoc}, {0})
  /\ ServerIdle

NextProviders ==
  \/ DirectCall(ProviderRequests)
  \/ Handler
  \/ OtherAdapter
  \/ ChatCompletions
  \/ Completion

SpecProviders == InitProviders /\ [][NextProviders]_vars

\* SpecRouting: requests to openai with and without files and images, on a
\* chat whose history may hold a turn with an image, through the three
\* OpenAI adapters.
RoutingImages == {<<>>, <<[scheme |-> "https", id |-> "x"]>>}

RoutingRequests ==
  Requests({"u1"}, {"c1"}, {"openai"}, FileLists(MaxFiles), RoutingImages)

RoutingTurns(images) ==
  { [StoredTurn(1, "user", "sent") EXCEPT !.images = images],
    StoredTurn(2, "assistant", "sent") }

InitRouting ==
  /\ users = [u \in Users |->
               [exists |-> u = "u1", plan |-> "monthly_pro", messagesThisMonth |-> 0]]
  /\ chats = [c \in ChatIds |->
               [exists |-> c # "c0", userId |-> IF c = "c2" THEN "u2" ELSE "u1",
                projectId |-> NoProject, messageCount |-> IF c = "c1" THEN 2 ELSE 0]]
  /\ \E images \in RoutingImages :
       stored = [c \in ChatIds |-> IF c = "c1" THEN RoutingTurns(images) ELSE {}]
  /\ project = NoProjectDoc
  /\ cpc = "idle"
  /\ snapLen = 0
  /\ nSends = 0
  /\ catalog = [p \in Providers |-> NotFetched]
  /\ access = NoAccess
  /\ calls = [k \in Calls |-> CallIdle]
  /\ tabs = [t \in Tabs |-> TabIdle]
  /\ chatCount = ChatsIn(chats)
  /\ ServerIdle

NextRouting ==
  \/ DirectCall(RoutingRequests)
  \/ Handler
  \/ ChatCompletions
  \/ AssistantsAdapter
  \/ FilesAndImagesAdapter
  \/ Completion

SpecRouting == InitRouting /\ [][NextRouting]_vars

\* SpecRules: clients reading and writing the chats and their messages
\* through the security rules.
InitRules ==
  /\ InitStore({"free"}, {0}, {NoProject}, {NoProjectDoc}, {0, MaxDocs})
  /\ ServerIdle

NextRules ==
  \/ ChatRead \/ ChatCreate \/ ChatUpdate \/ ChatDelete
  \/ MessageRead \/ MessageCreate \/ MessageUpdate \/ MessageDelete

SpecRules == InitRules /\ [][NextRules]_vars

\* SpecModels: the five model-list helpers, each against every answer of
\* its provider's models endpoint.
InitModels ==
  /\ InitStore({"free"}, {0}, {NoProject}, {NoProjectDoc}, {0})
  /\ ServerIdle

ModelLists ==
  \/ GetOpenAIModels \/ GetGoogleModels \/ GetAnthropicModels
  \/ GetDeepSeekModels \/ GetPerplexityModels

SpecModels == InitModels /\ [][ModelLists]_vars

\* -------------------------------------------------------------- properties
Finished == pc = "done"
OwnerCall ==
  /\ req.uid \in Users
  /\ chats[req.chatId].exists
  /\ chats[req.chatId].userId = req.uid
UsageNow == users[req.uid].messagesThisMonth
Sent == dispatched[1]
KindsOf(msgs) == [i \in 1..Len(msgs) |-> msgs[i].kind]
OfKind(msgs, kinds) == LET Is(m) == m.kind \in kinds IN SelectSeq(msgs, Is)

\* C1: an owner on the free plan whose usage is at least 10 when the quota
\* is read gets resource-exhausted, callAIProvider is not called and the
\* usage is left as it was.
C1_QuotaExhausted ==
  (Finished /\ OwnerCall /\ users[req.uid].plan = "free" /\ quotaRead >= FreeLimit)
    => /\ response.code = "resource-exhausted"
       /\ dispatched = <<>>
       /\ UsageNow = usageAtCall

C3_PermissionDenied ==
  (Finished /\ req.uid \in Users /\ ~OwnerCall)
    => /\ response.code = "permission-denied"
       /\ nUserReads = 0
       /\ dispatched = <<>>
       /\ nIncrements = 0

\* C4: in a send from the browser, the usage counter is incremented only
\* once the assistant turn of that send is among the chat's messages.
C4_IncrementAfterPersist ==
  (cpc = "waiting" /\ nIncrements > 0)
    => \E m \in stored["c1"] : m.role = "assistant" /\ m.ts > snapLen + 1

\* C5: the history passed to the provider is the most recent 20 persisted
\* turns of the chat (all of them when there are fewer), oldest first.
MostRecent(S) ==
  LET sorted == SortByTimestamp(S)
      n == Len(sorted)
  IN  SubSeq(sorted, n - Min(n, HistoryLimit) + 1, n)

TimestampsOf(msgs) == [i \in 1..Len(msgs) |-> msgs[i].ts]

C5_MostRecentHistory ==
  dispatched # <<>>
    => TimestampsOf(OfKind(Sent, {"history"}))
         = TimestampsOf(MostRecent(stored[req.chatId]))

\* C6: for a chat of an existing project the system turns in front of the
\* history are, in this order and each only if its field is present, the
\* project files, the system prompt, the shared context and the
\* instructions; a chat without a project gets none.
FieldPresent(kind) ==
  /\ chats[req.chatId].projectId # NoProject
  /\ project.exists
  /\ CASE kind = "projectFiles" -> project.files = "content"
       [] kind = "systemPrompt" -> project.systemPrompt
       [] kind = "sharedContext" -> project.sharedContext
       [] kind = "instructions" -> project.instructions

ProjectOrder == <<"projectFiles", "systemPrompt", "sharedContext", "instructions">>

C6_ProjectTurnOrder ==
  dispatched # <<>> =>
    LET turns == OfKind(Sent, ProjectKinds)
        Present(k) == FieldPresent(k)
    IN  /\ KindsOf(turns) = SelectSeq(ProjectOrder, Present)
        /\ \A i \in 1..Len(turns) : Sent[i] = turns[i] /\ turns[i].role = "system"
        /\ Len(Sent) > Len(turns) => Sent[Len(turns) + 1].kind \notin ProjectKinds

C6_Witness ==
  /\ dispatched # <<>>
  /\ KindsOf(OfKind(Sent, ProjectKinds)) = ProjectOrder
  /\ Len(OfKind(Sent, {"history"})) = HistoryLimit

\* C7, as claimed: the sequence given to callAIProvider is the project
\* turns, the history, the new user turn, then the file-text turn.
Rank(kind) ==
  CASE kind \in ProjectKinds -> 1
    [] kind = "history" -> 2
    [] kind = "user" -> 3
    [] OTHER -> 4

Ascending(ranks) ==
  \A i, j \in 1..Len(ranks) : i < j => ranks[i] <= ranks[j]

C7_UserTurnBeforeFileTurn ==
  dispatched # <<>> => Ascending([i \in 1..Len(Sent) |-> Rank(Sent[i].kind)])

\* C7, amended: the sequence is the project turns, the history, the system
\* turn made for the attached files (when there are files), and last the new
\* user turn.
RankInCode(kind) ==
  CASE kind \in ProjectKinds -> 1
    [] kind = "history" -> 2
    [] kind = "user" -> 4
    [] OTHER -> 3

C7_TurnOrder ==
  dispatched # <<>> =>
    /\ Ascending([i \in 1..Len(Sent) |-> RankInCode(Sent[i].kind)])
    /\ Sent[Len(Sent)] = UserTurn(req)
    /\ Len(OfKind(Sent, {"user"})) = 1
    /\ Len(OfKind(Sent, {"fileText", "fileUrls"}))
         = (IF Len(req.files) > 0 THEN 1 ELSE 0)
    /\ OfKind(Sent, {"history"}) = HistoryTurns(stored[req.chatId])
    /\ Len(Sent) = Len(OfKind(Sent, ProjectKinds)) + Len(OfKind(Sent, {"history"}))
                   + Len(OfKind(Sent, {"fileText", "fileUrls"})) + 1

C7_Witness ==
  /\ dispatched # <<>>
  /\ Len(OfKind(Sent, ProjectKinds)) > 0
  /\ Len(OfKind(Sent, {"history"})) > 0
  /\ Len(Sent) >= 2
  /\ Sent[Len(Sent) - 1].kind = "fileText"
  /\ Sent[Len(Sent)].kind = "user"

\* C8: for openai and a message with files, extractFileContent runs for
\* each file, one system turn wraps the extracted text, and the sequence
\* the dispatcher receives holds no raw file reference.
C8_NoRawFileReference ==
  (dispatched # <<>> /\ req.provider = "openai" /\ Len(req.files) > 0)
    => /\ nExtract = Len(req.files)
       /\ Len(OfKind(Sent, {"fileText"})) = 1
       /\ \A i \in 1..Len(Sent) :
            Len(Sent[i].files) = 0 /\ Sent[i].kind # "fileUrls"

\* C9: the image_url parts of a turn are the turn's images with an https
\* url, in their order; the other images are dropped without an error, the
\* text is kept and the completion call is made.
HttpsImages(images) ==
  LET Https(im) == im.scheme = "https" IN SelectSeq(images, Https)

PartsOfType(parts, type) ==
  LET Is(part) == part.type = type IN SelectSeq(parts, Is)

C9_HttpsImagesOnly ==
  payload # <<>> =>
    /\ Len(payload) = Len(messages)
    /\ adapter.completion = 1
    /\ \A i \in 1..Len(payload) :
         LET urls == PartsOfType(payload[i].content, "image_url")
             want == HttpsImages(messages[i].images)
         IN  /\ [k \in 1..Len(urls) |-> urls[k].url] = want
             /\ payload[i].content[1] = TextPart
             /\ payload[i].role = messages[i].role
             /\ payload[i].kind = messages[i].kind

C9_Witness ==
  /\ payload # <<>>
  /\ aiResponse = "result"
  /\ \E i \in 1..Len(messages) :
       /\ Len(messages[i].images) = 2
       /\ \E k \in 1..2 : messages[i].images[k].scheme = "http"
       /\ Len(PartsOfType(payload[i].content, "image_url")) = 1

\* C10: when the Assistants adapter has returned or thrown, the deletion of
\* the assistant it created and of every file it uploaded has been
\* attempted.
RangeOf(seq) == {seq[i] : i \in 1..Len(seq)}

C10_CleanupAlways ==
  (adapter.route = "assistants" /\ aiResponse # "none")
    => /\ adapter.assistant = "created" => adapter.deleteAssistant
       /\ \A i \in 1..Len(adapter.uploaded) :
            adapter.uploaded[i].id \in RangeOf(adapter.deleteFiles)

\* C11: in the Assistants adapter a failing cleanup step does not change the
\* outcome: once the run completed with a text answer the adapter returns
\* that answer, also when a delete throws, and after a failed run the error
\* raised is the run's failure.
C11_CleanupNeverMasks ==
  (adapter.route = "assistants" /\ aiResponse # "none")
    => /\ adapter.reply = "text" => aiResponse = "result"
       /\ adapter.status \in {"failed", "expired"}
            => thrown = ProviderError(Failure("Assistant run failed", 0,
                                              adapter.status))

\* C12: a call of callAIProvider that ends has either returned a result
\* object, with its content and a usage record, or raised an error; it never
\* ends normally without a result.
C12_ResultOrError ==
  /\ aiResponse \in {"none", "result", "threw"}
  /\ aiResponse = "result" => adapter.usage.defined

\* C13: extractFileContent does not throw: for a file whose download or
\* parse failed, the file note holds a placeholder with the file's name and
\* the reason, and the request goes on to the call of callAIProvider.
FileText == OfKind(messages, {"fileText"})[1]

C13_ExtractNeverThrows ==
  Len(extracts) > 0 =>
    /\ pc = "callAIProvider" \/ dispatched # <<>>
    /\ dispatched = <<>> => thrown = NoError
    /\ Len(OfKind(messages, {"fileText"})) = 1
    /\ Len(FileText.body) = Len(extracts)
    /\ \A i \in 1..Len(extracts) :
         LET content == FileText.body[i].content
         IN  /\ FileText.body[i].fileName = extracts[i].file.fileName
             /\ extracts[i].outcome # "ok" =>
                  /\ content.kind = "failed"
                  /\ content.of = extracts[i].file.fileName
                  /\ content.reason \in {"fetch", "parse"}

C13_Witness ==
  /\ dispatched # <<>>
  /\ \E i, j \in 1..Len(extracts) :
       /\ extracts[i].outcome = "fetchFail"
       /\ extracts[j].outcome = "parseFail"
       /\ OfKind(Sent, {"fileText"})[1].body[j].content.reason = "parse"

\* C14: when a provider's model-list fetch met a network error or a status
\* other than 2xx, the helper has returned a non-empty catalog of that
\* provider whose entries are all available, three entries for anthropic,
\* and has thrown nothing.
FetchFailed(p) == catalog[p].fetch.kind \in {"network", "http"}

C14_FallbackOnFetchFailure ==
  \A p \in Providers :
    FetchFailed(p) =>
      /\ ~catalog[p].threw
      /\ Len(catalog[p].models) > 0
      /\ \A i \in 1..Len(catalog[p].models) :
           /\ catalog[p].models[i].available
           /\ catalog[p].models[i].provider = p
      /\ p = "anthropic" => Len(catalog[p].models) = 3

\* C15: every failed invocation by an authenticated caller gives the caller
\* the same error code and the same message, whatever was thrown inside and
\* whatever the provider answered; neither the provider's status nor its
\* response body is in what the caller receives.
C15_UniformFailure ==
  (Finished /\ req.uid \in Users /\ response.code # "ok")
    => response = ErrorResponse(HttpsError("internal", "Failed to send message"))

C15_Witness ==
  /\ Finished
  /\ req.uid \in Users
  /\ adapter.route = "perplexity"
  /\ thrown.status = 500
  /\ thrown.body # ""
  /\ response.code = "internal"
  /\ response.body = ""

\* C16: the usage returned by sendMessageV2 has totalTokens = promptTokens +
\* completionTokens when the provider reported both the prompt and the
\* completion count, and is all zeros otherwise.
\* What the provider reported: the usage of its HTTP answer, or for the
\* chat-completions adapter the completion's usage object.
ReportedUsage ==
  IF adapter.route \in Providers \ {"openai"} THEN adapter.http.usage
  ELSE adapter.usage

ReportedBoth ==
  ReportedUsage.prompt_tokens # <<>> /\ ReportedUsage.completion_tokens # <<>>

C16_TotalIsSum ==
  (Finished /\ response.code = "ok")
    => IF ReportedBoth
       THEN response.usage.totalTokens
              = response.usage.promptTokens + response.usage.completionTokens
       ELSE response.usage = NoTokens

\* C17: when the endpoint of anthropic, deepseek or perplexity answers with a
\* status other than 2xx, the adapter throws an error that carries that
\* status and returns no result.
C17_Non2xxIsProviderError ==
  ( /\ adapter.route \in {"anthropic", "deepseek", "perplexity"}
    /\ aiResponse # "none"
    /\ adapter.http # NetworkError
    /\ ~Ok(adapter.http) )
    => /\ aiResponse = "threw"
       /\ thrown.status = adapter.http.status

\* C18: within one invocation each attached file's storage url is fetched
\* at most once, by extractFileContent and the adapters together.
StorageGets(url) ==
  Cardinality({i \in 1..Len(extracts) : extracts[i].file.url = url})
    + Cardinality({i \in 1..Len(adapter.fetched) : adapter.fetched[i] = url})

C18_FetchAtMostOnce ==
  \A i \in 1..Len(req.files) : StorageGets(req.files[i].url) <= 1

\* C19: a read, create, update or delete that an authenticated user sends
\* for a chat document of another user, or for a message of such a chat, is
\* denied by the rules.
C19_OwnChatsOnly ==
  ( /\ access.op \in RuleOps
    /\ access.uid \in Users
    /\ access.owner \in Users
    /\ access.owner # access.uid )
    => ~access.allowed

\* C20: callOpenAI hands the sequence to one adapter: the Assistants adapter
\* iff some turn has files and no turn has images, the hybrid adapter iff
\* some turn has files and some turn has images, the chat-completions
\* adapter otherwise; only that adapter's steps are taken, it makes at most
\* one completion or run request, and the hybrid adapter makes its request
\* when every file has been uploaded.
SomeTurnHasFiles == \E i \in 1..Len(Sent) : Sent[i].files # <<>>
SomeTurnHasImages == \E i \in 1..Len(Sent) : Sent[i].images # <<>>
AssistantsSteps ==
  {"assistants", "as_assistant", "as_thread", "as_messages", "as_run", "as_poll",
   "as_list", "as_deleteAssistant", "as_deleteFiles"}
HybridSteps == {"filesAndImages", "fi_completion", "fi_cleanup"}

C20_OneAdapterOneRequest ==
  (dispatched # <<>> /\ req.provider = "openai") =>
    /\ Len(dispatched) = 1
    /\ adapter.route = "assistants" <=> (SomeTurnHasFiles /\ ~SomeTurnHasImages)
    /\ adapter.route = "filesAndImages" <=> (SomeTurnHasFiles /\ SomeTurnHasImages)
    /\ adapter.route = "chatCompletions" <=> ~SomeTurnHasFiles
    /\ pc \in AssistantsSteps => adapter.route = "assistants"
    /\ pc \in HybridSteps => adapter.route = "filesAndImages"
    /\ pc = "chatCompletions" => adapter.route = "chatCompletions"
    /\ adapter.route # "assistants" =>
         /\ adapter.assistant = "none"
         /\ adapter.thread = "none"
         /\ adapter.run = "none"
    /\ adapter.route = "chatCompletions" => adapter.fetched = <<>>
    /\ adapter.completion <= 1
    /\ (adapter.route = "filesAndImages" /\ adapter.completion = 1) =>
         /\ Len(adapter.uploaded) = Len(FilesOf(Sent))
         /\ adapter.deleteFiles = <<>> \/ payload # <<>>
    /\ (adapter.route = "filesAndImages" /\ adapter.completion = 0) =>
         adapter.deleteFiles = <<>>

C20_Witness ==
  /\ aiResponse = "result"
  /\ adapter.route = "filesAndImages"
  /\ adapter.completion = 1
  /\ Len(adapter.uploaded) >= 1
  /\ Sent[Len(Sent)].images = <<>>
  /\ Sent[Len(Sent)].files # <<>>

\* C21: the Assistants adapter takes its steps in the order upload the
\* files, create the assistant, create the thread, append the messages,
\* start the run, poll; a step is begun only when the one before it is
\* complete, no step is taken again once left, the poll alone repeats (while
\* the run is queued or in progress), and after a failure no step follows.
StepRank(step) ==
  CASE step = "assistants" -> 1
    [] step = "as_assistant" -> 2
    [] step = "as_thread" -> 3
    [] step = "as_messages" -> 4
    [] step = "as_run" -> 5
    [] step = "as_poll" -> 6
    [] step = "as_list" -> 7
    [] step = "as_deleteAssistant" -> 8
    [] step = "as_deleteFiles" -> 9
    [] OTHER -> 10

StepsInOrder ==
  adapter.route = "assistants" =>
    /\ adapter.assistant = "created" => Len(adapter.uploaded) = Len(FilesOf(messages))
    /\ adapter.thread = "created" => adapter.assistant = "created"
    /\ adapter.appended # <<>> => adapter.thread = "created"
    /\ adapter.run = "created" =>
         /\ Len(adapter.appended) = Len(ThreadTurns(messages))
         /\ adapter.completion = 1
    /\ adapter.run = "none" => adapter.completion = 0
    /\ adapter.polls > 0 => adapter.run = "created"
    /\ Len(adapter.fetched) <= Len(adapter.uploaded) + 1
    /\ aiResponse = "threw" => pc = "done"

OneStepAtATime ==
  (pc \in AssistantsSteps /\ pc' # pc) =>
    \/ pc' = "done"
    \/ pc' = "updateUsage"
    \/ pc' \in AssistantsSteps /\ StepRank(pc') = StepRank(pc) + 1

RepeatsOnlyToGoOn ==
  (pc \in AssistantsSteps /\ pc' = pc /\ adapter' # adapter) =>
    \/ pc = "assistants" /\ Len(adapter'.uploaded) = Len(adapter.uploaded) + 1
    \/ pc = "as_messages" /\ Len(adapter'.appended) = Len(adapter.appended) + 1
    \/ pc = "as_deleteFiles" /\ Len(adapter'.deleteFiles) = Len(adapter.deleteFiles) + 1
    \/ /\ pc = "as_poll"
       /\ adapter'.status \in {"queued", "in_progress"}
       /\ adapter'.polls = adapter.polls + 1

NothingAfterFailure ==
  aiResponse = "threw" => (adapter' = adapter \/ adapter' = AdapterIdle)

C21_ProtocolOrder ==
  /\ []StepsInOrder
  /\ [][OneStepAtATime /\ RepeatsOnlyToGoOn /\ NothingAfterFailure]_vars

C21_Witness ==
  /\ adapter.route = "assistants"
  /\ pc = "as_list"
  /\ Len(adapter.uploaded) = 2
  /\ Len(adapter.appended) >= 1
  /\ adapter.polls >= 2
  /\ adapter.status = "completed"

\* C22: once the poll loop of the Assistants adapter has read a status other
\* than queued or in_progress and the thread's messages have been listed, the
\* adapter ends by returning the assistant's text exactly when that status is
\* completed, and by raising an error that names the status otherwise.
PollLoopLeft ==
  /\ adapter.route = "assistants"
  /\ adapter.polls > 0
  /\ adapter.status \notin {"none", "queued", "in_progress"}
  /\ aiResponse # "none"

C22_TextIffCompleted ==
  PollLoopLeft =>
    IF adapter.status = "completed"
    THEN adapter.reply = "listFails" \/ aiResponse = "result"
    ELSE /\ aiResponse = "threw"
         /\ thrown = ProviderError(Failure("Assistant run failed", 0,
                                           adapter.status))

\* C23: in the Assistants adapter every file of a turn gives exactly one
\* attachment of that turn's thread message, and the attachment carries the
\* provider file id given to that very file when it was uploaded, also when
\* two attached files have the same fileName.
IdOf(file) ==
  LET k == CHOOSE i \in 1..Len(adapter.uploaded) : adapter.uploaded[i].file = file
  IN  adapter.uploaded[k].id

TurnOf(message) ==
  LET k == CHOOSE i \in 1..Len(messages) :
             messages[i].role # "system" /\ messages[i].ts = message.ts
                                         /\ messages[i].kind = message.kind
  IN  messages[k]

C23_OwnFileId ==
  adapter.route = "assistants" =>
    \A m \in 1..Len(adapter.appended) :
      LET files == TurnOf(adapter.appended[m]).files
          attachments == adapter.appended[m].attachments
      IN  /\ Len(attachments) = Len(files)
          /\ \A i \in 1..Len(files) : attachments[i] = IdOf(files[i])

\* C24: the Assistants adapter appends every turn of the outgoing sequence
\* to the thread, system turns included, in the order of the sequence.
C24_EveryTurnAppended ==
  (adapter.route = "assistants" /\ adapter.run = "created") =>
    /\ Len(adapter.appended) = Len(messages)
    /\ \A i \in 1..Len(messages) :
         /\ adapter.appended[i].kind = messages[i].kind
         /\ adapter.appended[i].ts = messages[i].ts

\* C25: when no send is running and every send so far has succeeded, the
\* messageCount of chat c1 is the number of messages persisted in it,
\* whatever the interleaving of the tabs' sends was.
NoSendRunning == \A t \in Tabs : tabs[t].at = "idle"
EverySendSucceeded == \A m \in stored["c1"] : m.status = "sent"

C25_CountIsPersisted ==
  (NoSendRunning /\ EverySendSucceeded /\ \E t \in Tabs : tabs[t].sends > 0)
    => chats["c1"].messageCount = Cardinality(stored["c1"])

\* C26: whatever the order in which the extractions of a request settle and
\* whichever of them fail, the file-text turn holds one block per attached
\* file, in the order of the files list, with the file's own name and type;
\* the block of a failed extraction holds that file's placeholder and the
\* block of a successful one holds that file's own content.
OwnBlock(block, file, outcome) ==
  /\ block.fileName = file.fileName
  /\ block.mimeType = file.mimeType
  /\ block.content.of \in {file.url, file.fileName}
  /\ outcome # "ok" =>
       /\ block.content.kind = "failed"
       /\ block.content.of = file.fileName
  /\ outcome = "ok" =>
       IF file.mimeType \in ParsedTypes \cup TextTypes
       THEN block.content.kind = "content" /\ block.content.of = file.url
       ELSE block.content.kind = "unsupported"

C26_BlocksInFileOrder ==
  Len(extracts) > 0 =>
    /\ Len(OfKind(messages, {"fileText"})) = 1
    /\ Len(OfKind(messages, {"fileText"})[1].body) = Len(req.files)
    /\ \A i \in 1..Len(req.files) :
         /\ extracts[i].file = req.files[i]
         /\ OwnBlock(OfKind(messages, {"fileText"})[1].body[i], req.files[i],
                     extracts[i].outcome)

C26_Witness ==
  /\ Len(extracts) = 2
  /\ extracts[1].outcome # "ok"
  /\ extracts[2].outcome = "ok"
  /\ extracts[2].file.mimeType \in ParsedTypes \cup TextTypes
  /\ OfKind(messages, {"fileText"})[1].body[2].content.of = req.files[2].url
  /\ dispatched # <<>>

\* C27: the usage.messagesThisMonth of a free-tier user is never above the
\* monthly limit, however the quota reads and the increments of the user's
\* invocations interleave.
C27_FreeUsageWithinLimit ==
  users["u1"].plan = "free" => users["u1"].messagesThisMonth <= FreeLimit

\* C28: every project's chatCount is the number of existing chats whose
\* projectId is that project, after any sequence of createNewChatV2,
\* deleteChat, deleteChatV2 and updateChatProject.
C28_ChatCountIsChats ==
  \A p \in Projects : chatCount[p] = ChatsIn(chats)[p]

\* C29: what the anthropic and google adapters send holds every turn of the
\* outgoing sequence: every system turn, and every history and user turn in
\* the order of the sequence.
TurnsSent(entries) == [i \in 1..Len(entries) |-> <<entries[i].kind, entries[i].ts>>]
SystemOf(entries) ==
  LET IsSystem(e) == e.role = "system" IN SelectSeq(entries, IsSystem)

C29_NoTurnLost ==
  (adapter.route \in {"anthropic", "google"} /\ payload # <<>>) =>
    /\ TurnsSent(SystemOf(payload)) = TurnsSent(SystemOf(messages))
    /\ TurnsSent(ConversationMessages(payload)) = TurnsSent(ConversationMessages(messages))

\* C30: when the files+images adapter has returned or thrown, the deletion
\* of every file it uploaded to the provider has been attempted, also after
\* a failed download or upload of a later file and after a failed completion.
C30_HybridCleanupAlways ==
  (adapter.route = "filesAndImages" /\ aiResponse # "none")
    => /\ adapter.unlisted = 0
       /\ Len(adapter.deleteFiles) = Len(adapter.uploaded)
       /\ \A i \in 1..Len(adapter.uploaded) :
            adapter.deleteFiles[i] = adapter.uploaded[i].id

====
